---- MODULE Spec2Model ----
(***************************************************************************)
(* Rule engine of the "Hive" plugin (plugin-2020): the game position, the  *)
(* move validator and the move generator of src/plugin-2020/src/game.rs,   *)
(* with the hex-grid coordinate algebra of src/plugin-2020/src/util.rs.    *)
(*                                                                         *)
(* A position is the GameState most recently decoded from a Memento.  The  *)
(* engine's operations (validate_move, possible_moves) are pure functions  *)
(* of the position; each is an action that records its arguments and its   *)
(* result in the variable call and leaves the position alone.              *)
(***************************************************************************)
EXTENDS Integers, Sequences, FiniteSets

\* ------------------------------------------------------------------ bounds

\* Radius of the board the model explores (the program's BOARD_RADIUS is 6).
BoardRadius == 2

\* Largest number of pieces on the board, and largest turn, of a position the
\* drag moves are checked on.
MaxPieces == 3

\* Largest number of pieces on the board of a position the set moves are
\* checked on.
MaxSetPieces == 2

\* Largest turn of a position the set moves are checked on.
MaxTurn == 8

\* Largest turn of a position with stacks the set moves are checked on.
MaxStackTurn == 5

\* Largest turn of a snapshot the packet loop receives, and largest number of
\* move packets it writes.
MaxClientTurn == 3

MaxWritten == 2

\* ------------------------------------------------------------- structures

PlayerColor == {"Red", "Blue"}

PieceType == {"Ant", "Bee", "Beetle", "Grasshopper", "Spider"}

Piece == [owner : PlayerColor, piece_type : PieceType]

BOARD_RADIUS == 6

FIELD_COUNT == 91

INITIAL_PIECE_TYPES ==
    << "Bee", "Spider", "Spider", "Spider", "Grasshopper", "Grasshopper",
       "Beetle", "Beetle", "Ant", "Ant", "Ant" >>

opponent(color) == IF color = "Red" THEN "Blue" ELSE "Red"

\* Option<T>: None, or a value wrapped by Some.
None == [some |-> FALSE]

Some(v) == [some |-> TRUE, value |-> v]

\* ------------------------------------------------------------ coordinates

AxialCoords(x, y) == [x |-> x, y |-> y]

CubeCoords(x, y, z) == [x |-> x, y |-> y, z |-> z]

signum(n) == IF n > 0 THEN 1 ELSE IF n < 0 THEN 0 - 1 ELSE 0

max(a, b) == IF a >= b THEN a ELSE b

min(a, b) == IF a <= b THEN a ELSE b

axial_add(a, b) == AxialCoords(a.x + b.x, a.y + b.y)

\* impl Add for CubeCoords: the z component adds self.y to rhs.z.
cube_add(a, b) == CubeCoords(a.x + b.x, a.y + b.y, a.y + b.z)

cube_sub(a, b) == CubeCoords(a.x - b.x, a.y - b.y, a.z - b.z)

\* impl AddAssign for CubeCoords (used by LineIter::next).
cube_add_assign(a, b) == CubeCoords(a.x + b.x, a.y + b.y, a.z + b.z)

\* From<AxialCoords> for CubeCoords.
cube_from_axial(c) == CubeCoords(c.x, c.y, 0 - (c.x + c.y))

\* From<CubeCoords> for AxialCoords.
axial_from_cube(c) == AxialCoords(c.x, c.y)

DoubledCoords(x, y) == [x |-> x, y |-> y]

\* Division of i32: the quotient is rounded toward zero.
div_trunc(a, b) ==
    IF (a >= 0) = (b > 0) THEN a \div b ELSE 0 - ((0 - a) \div b)

doubled_from_axial(c) == DoubledCoords(c.x - c.y, 0 - (c.x + c.y))

axial_from_doubled_undivided(c) == AxialCoords(c.x - c.y, 0 - (c.x + c.y))

axial_from_doubled(c) ==
    AxialCoords(div_trunc(c.x - c.y, 2), div_trunc(0 - (c.x + c.y), 2))

\* Six offsets of which two, (1, 1) and (-1, -1), lead to cells at distance 2.
coord_neighbors_diagonal(c) ==
    << axial_add(c, AxialCoords(0, 1)),
       axial_add(c, AxialCoords(1, 0)),
       axial_add(c, AxialCoords(1, 1)),
       axial_add(c, AxialCoords(0, 0 - 1)),
       axial_add(c, AxialCoords(0 - 1, 0)),
       axial_add(c, AxialCoords(0 - 1, 0 - 1)) >>

\* The six neighbours, in the order of the source array.
coord_neighbors(c) ==
    << axial_add(c, AxialCoords(0, 1)),
       axial_add(c, AxialCoords(1, 0)),
       axial_add(c, AxialCoords(1, 0 - 1)),
       axial_add(c, AxialCoords(0, 0 - 1)),
       axial_add(c, AxialCoords(0 - 1, 0)),
       axial_add(c, AxialCoords(0 - 1, 1)) >>

is_adjacent_to(a, b) ==
    \E i \in 1..6 : coord_neighbors(a)[i] = b

forms_line_with(a, b) ==
    LET lhs_cube == cube_from_axial(a)
        rhs_cube == cube_from_axial(b)
    IN  lhs_cube.x = rhs_cube.x \/ lhs_cube.y = rhs_cube.y \/ lhs_cube.z = rhs_cube.z

\* LineFormable::line_iter: the iterator's initial state.
line_iter(a, b) ==
    LET lhs_cube == cube_from_axial(a)
        rhs_cube == cube_from_axial(b)
        diff     == cube_sub(rhs_cube, lhs_cube)
        step     == CubeCoords(signum(diff.x), signum(diff.y), signum(diff.z))
    IN  [current |-> cube_add(lhs_cube, step), destination |-> rhs_cube, step |-> step]

\* LineIter::next: None at the destination, else the current position, the
\* iterator advanced by one step.
line_next(it) ==
    IF it.current = it.destination
    THEN [item |-> None, iter |-> it]
    ELSE [item |-> Some(it.current),
          iter |-> [it EXCEPT !.current = cube_add_assign(it.current, it.step)]]

RECURSIVE line_items(_, _)

\* The elements the iterator yields, the first `fuel` of them when it does
\* not end before.
line_items(it, fuel) ==
    LET n == line_next(it)
    IN  IF ~n.item.some \/ fuel = 0 THEN << >>
        ELSE << n.item.value >> \o line_items(n.iter, fuel - 1)

\* ------------------------------------------------------------------ Field

Field(piece_stack, is_obstructed) ==
    [piece_stack |-> piece_stack, is_obstructed |-> is_obstructed]

\* Field::default(): no pieces, not obstructed.
default_field == Field(<< >>, FALSE)

has_pieces(f) == f.piece_stack # << >>

field_is_occupied(f) == f.is_obstructed \/ has_pieces(f)

is_empty(f) == ~field_is_occupied(f)

\* The top-most piece, if any.
piece(f) ==
    IF f.piece_stack = << >> THEN None ELSE Some(f.piece_stack[Len(f.piece_stack)])

owner(f) == IF piece(f).some THEN Some(piece(f).value.owner) ELSE None

is_owned_by(f, color) == owner(f) = Some(color)

push(f, p) == [f EXCEPT !.piece_stack = Append(@, p)]

\* Field::pop: drops the top piece; an empty stack stays empty.
pop(f) ==
    IF f.piece_stack = << >> THEN f
    ELSE [f EXCEPT !.piece_stack = SubSeq(@, 1, Len(@) - 1)]

\* ------------------------------------------------------------------ Board

all_coords_square(radius) ==
    [x : (1 - radius)..(radius - 1), y : (1 - radius)..(radius - 1)]

\* The coordinates filling_radius pads a board of the given radius with.
all_coords(radius) ==
    LET outer == radius
        inner == outer - 1
    IN  { c \in [x : (0 - inner)..inner, y : (0 - inner)..inner] :
            /\ c.x >= max(0 - (inner + c.y), 0 - inner)
            /\ c.x <= min(inner - c.y, inner) }

\* Board::filling_radius: the given fields, padded with default fields.
filling_radius(radius, fields) ==
    [ c \in (DOMAIN fields) \cup all_coords(radius) |->
        IF c \in DOMAIN fields THEN fields[c] ELSE default_field ]

contains_coords(b, coords) == coords \in DOMAIN b

field(b, coords) == IF coords \in DOMAIN b THEN Some(b[coords]) ELSE None

\* Board::neighbors: the neighbour coordinates that exist on the board.
neighbors(b, coords) ==
    { coord_neighbors(coords)[i] : i \in 1..6 } \cap DOMAIN b

empty_neighbors(b, coords) == { c \in neighbors(b, coords) : is_empty(b[c]) }

fields_owned_by(b, color) == { c \in DOMAIN b : is_owned_by(b[c], color) }

empty_fields(b) == { c \in DOMAIN b : is_empty(b[c]) }

occupied_fields(b) == { c \in DOMAIN b : field_is_occupied(b[c]) }

board_has_pieces(b) == \E c \in DOMAIN b : has_pieces(b[c])

has_placed_bee_on_top(b, color) ==
    \E c \in DOMAIN b : piece(b[c]) = Some([owner |-> color, piece_type |-> "Bee"])

has_placed_bee(b, color) ==
    LET bee == [owner |-> color, piece_type |-> "Bee"]
    IN  \E c \in DOMAIN b : \E i \in 1..Len(b[c].piece_stack) : b[c].piece_stack[i] = bee

is_next_to_own_color(b, color, coords) ==
    \E c \in neighbors(b, coords) : is_owned_by(b[c], opponent(color))

is_next_to(b, color, coords) ==
    \E c \in neighbors(b, coords) : is_owned_by(b[c], color)

\* Board::possible_set_move_destinations (made unique by the source).
possible_set_move_destinations(b, color) ==
    { c \in UNION { empty_neighbors(b, o) : o \in fields_owned_by(b, color) } :
        ~is_next_to(b, opponent(color), c) }

shared_neighbors(b, a1, b1) == neighbors(b, a1) \cap neighbors(b, b1)

can_move_between(b, a1, b1) ==
    LET shared == shared_neighbors(b, a1, b1)
    IN  /\ (Cardinality(shared) = 1 \/ \E c \in shared : is_empty(b[c]))
        /\ \E c \in shared : has_pieces(b[c])

accessible_neighbors(b, coords) ==
    { c \in neighbors(b, coords) : is_empty(b[c]) /\ can_move_between(b, coords, c) }

\* The sliding rule as the Board of game/board.rs has it, with an exception
\* coordinate.  Its shared_neighbors keeps a field of the
\* intersection when its stack does not hold exactly one piece or when it is
\* the exception.
shared_neighbors_except(b, a1, b1, exception) ==
    { c \in neighbors(b, a1) \cap neighbors(b, b1) :
        Len(b[c].piece_stack) # 1 \/ exception = Some(c) }

can_move_between_except(b, exception, a1, b1) ==
    LET shared == shared_neighbors_except(b, a1, b1, exception)
    IN  /\ (Cardinality(shared) = 1 \/ \E c \in shared : is_empty(b[c]))
        /\ \E c \in shared : has_pieces(b[c])

board_can_move_between(b, a1, b1) == can_move_between_except(b, None, a1, b1)

\* ------------------------------------------------------- sequence helpers

\* A total order on coordinates, used to list a set of coordinates (the
\* iteration order of the source's HashMap is unspecified).
coords_before(a, b) == a.y < b.y \/ (a.y = b.y /\ a.x < b.x)

RECURSIVE SetToSeq(_)
SetToSeq(S) ==
    IF S = {} THEN << >>
    ELSE LET first == CHOOSE a \in S : \A b \in S \ {a} : coords_before(a, b)
         IN  << first >> \o SetToSeq(S \ {first})

RECURSIVE Concat(_)
Concat(seqs) ==
    IF seqs = << >> THEN << >> ELSE Head(seqs) \o Concat(Tail(seqs))

\* The elements of a sequence.
Range(seq) == { seq[i] : i \in 1..Len(seq) }

\* Board::neighbors / empty_neighbors as the iterators the source loops over.
neighbors_seq(b, coords) ==
    SelectSeq(coord_neighbors(coords), LAMBDA c : c \in DOMAIN b)

empty_neighbors_seq(b, coords) ==
    SelectSeq(neighbors_seq(b, coords), LAMBDA c : is_empty(b[c]))

accessible_neighbors_seq_any(b, coords) ==
    SelectSeq(neighbors_seq(b, coords), LAMBDA c : can_move_between(b, coords, c))

accessible_neighbors_seq(b, coords) ==
    SelectSeq(neighbors_seq(b, coords),
              LAMBDA c : is_empty(b[c]) /\ can_move_between(b, coords, c))

\* Board::swarm_boundary: the empty neighbours of every occupied field, one
\* entry per occupied neighbour.
swarm_boundary(b) ==
    LET occ == SetToSeq(occupied_fields(b))
    IN  Concat([ i \in 1..Len(occ) |-> empty_neighbors_seq(b, occ[i]) ])

\* ------------------------------------------------------ searches on a board

RECURSIVE dfs_swarm(_, _, _)
RECURSIVE dfs_swarm_neighbors(_, _, _, _)

\* Board::dfs_swarm: returns the set `unvisited` as the call leaves it.
dfs_swarm(b, coords, unvisited) ==
    IF field(b, coords).some /\ has_pieces(field(b, coords).value)
    THEN dfs_swarm_neighbors(b, neighbors_seq(b, coords), 1, unvisited \ {coords})
    ELSE unvisited

dfs_swarm_neighbors_flat(b, nbs, i, unvisited) == unvisited \ Range(nbs)

\* The loop of dfs_swarm over the neighbours, from index i on.
dfs_swarm_neighbors(b, nbs, i, unvisited) ==
    IF i > Len(nbs) THEN unvisited
    ELSE IF nbs[i] \in unvisited
         THEN dfs_swarm_neighbors(b, nbs, i + 1, dfs_swarm(b, nbs[i], unvisited))
         ELSE dfs_swarm_neighbors(b, nbs, i + 1, unvisited)

is_swarm_connected_from_visiting_any(b, start) ==
    LET unvisited == { c \in DOMAIN b : has_pieces(b[c]) }
    IN  dfs_swarm(b, start, unvisited) # unvisited

\* Board::is_swarm_connected with the search started at `start`.
is_swarm_connected_from(b, start) ==
    LET unvisited == { c \in DOMAIN b : has_pieces(b[c]) }
    IN  dfs_swarm(b, start, unvisited) = {}

\* Board::is_swarm_connected: the start is the first element the HashSet
\* iterator yields.
is_swarm_connected(b) ==
    LET unvisited == { c \in DOMAIN b : has_pieces(b[c]) }
    IN  IF unvisited = {} THEN TRUE
        ELSE is_swarm_connected_from(b, CHOOSE c \in unvisited : TRUE)

RECURSIVE bfs_accessible_loop(_, _, _, _)

\* The while loop of Board::bfs_accessible, the search condition being
\* `coords == destination`.
bfs_accessible_loop(b, queue, visited, destination) ==
    IF queue = << >> THEN FALSE
    ELSE LET coords   == Head(queue)
             visited1 == visited \cup {coords}
         IN  IF field(b, coords).some
             THEN IF coords = destination THEN TRUE
                  ELSE bfs_accessible_loop(b,
                         Tail(queue) \o SelectSeq(accessible_neighbors_seq(b, coords),
                                                  LAMBDA c : c \notin visited1),
                         visited1, destination)
             ELSE bfs_accessible_loop(b, Tail(queue), visited1, destination)

connected_by_boundary_path(b, start, destination) ==
    bfs_accessible_loop(b, << start >>, {}, destination)

RECURSIVE bfs_2_steps_loop(_, _, _)
RECURSIVE bfs_3_steps_loop(_, _, _)

bfs_2_steps_loop(b, paths_queue, destination) ==
    IF paths_queue = << >> THEN FALSE
    ELSE LET path == Head(paths_queue)
             nbs  == SelectSeq(accessible_neighbors_seq(b, path[Len(path)]),
                               LAMBDA c : c \notin Range(path))
         IN  IF Len(path) < 2
             THEN bfs_2_steps_loop(b,
                    Tail(paths_queue) \o [ i \in 1..Len(nbs) |-> Append(path, nbs[i]) ],
                    destination)
             ELSE IF \E i \in 1..Len(nbs) : nbs[i] = destination
                  THEN TRUE
                  ELSE bfs_2_steps_loop(b, Tail(paths_queue), destination)

\* The while loop of Board::bfs_reachable_in_3_steps over the queue of paths.
bfs_3_steps_loop(b, paths_queue, destination) ==
    IF paths_queue = << >> THEN FALSE
    ELSE LET path == Head(paths_queue)
             nbs  == SelectSeq(accessible_neighbors_seq(b, path[Len(path)]),
                               LAMBDA c : c \notin Range(path))
         IN  IF Len(path) < 3
             THEN bfs_3_steps_loop(b,
                    Tail(paths_queue) \o [ i \in 1..Len(nbs) |-> Append(path, nbs[i]) ],
                    destination)
             ELSE IF \E i \in 1..Len(nbs) : nbs[i] = destination
                  THEN TRUE
                  ELSE bfs_3_steps_loop(b, Tail(paths_queue), destination)

bfs_reachable_in_3_steps(b, start, destination) ==
    bfs_3_steps_loop(b, << << start >> >>, destination)

\* --------------------------------------------------------------- GameState

GameState(turn_, board_, red_, blue_) ==
    [turn |-> turn_, board |-> board_,
     undeployed_red_pieces |-> red_, undeployed_blue_pieces |-> blue_]

undeployed_pieces(gs, color) ==
    IF color = "Red" THEN gs.undeployed_red_pieces ELSE gs.undeployed_blue_pieces

round(gs) == gs.turn \div 2

SetMove(piece_, destination) ==
    [kind |-> "SetMove", piece |-> piece_, destination |-> destination]

DragMove(start, destination) ==
    [kind |-> "DragMove", start |-> start, destination |-> destination]

\* SCResult<()>: Ok, or Err with one of these reasons.  NoReturn stands for a
\* call that does not return (it loops until the coordinates overflow).
Ok == "Ok"

NoReturn == "NoReturn"

ErrNotAdjacent == "Coords are not adjacent to each other"

ErrNoAntPath == "Could not find path for ant"

ErrCannotMoveBetween == "Cannot move between"

ErrBeetleAlongSwarm == "Beetle has to move along swarm"

ErrGrasshopperLine == "Grasshopper can only move along straight lines"

ErrGrasshopperNeighbor == "Grasshopper must not move to a neighbor"

ErrGrasshopperEmpty == "Grasshopper cannot move over empty fields"

ErrNoSpiderPath == "No 3-step path found for Spider move"

ErrDestinationOutOfBounds == "Move destination is out of bounds"

ErrDestinationObstructed == "Move destination is obstructed"

ErrNextToOpponent == "Piece has to be placed next to an opponent's piece"

ErrBeeFourthRound == "Bee has to be placed in the fourth round or earlier"

ErrNotUndeployed == "Piece is not undeployed"

ErrNotNextToOwn == "Piece is not placed next to an own piece"

ErrNotNextToOpponent == "Piece must not be placed next to an opponent's piece"

ErrBeeBeforeDrag == "Bee has to be placed before committing a drag move"

ErrStartOutOfBounds == "Move start is out of bounds"

ErrOpponentsPiece == "Cannot move opponent's piece"

ErrStartIsDestination == "Cannot move when start == destination"

ErrOnlyBeetlesClimb == "Only beetles can climb other pieces"

ErrDisconnectsSwarm == "Drag move would disconnect the swarm"

ErrNoPiece == "No piece to move"

\* ---------------------------------------------------------- move validator

validate_adjacent(gs, start, destination) ==
    IF is_adjacent_to(start, destination) THEN Ok ELSE ErrNotAdjacent

validate_ant_move(gs, start, destination) ==
    IF connected_by_boundary_path(gs.board, start, destination) THEN Ok ELSE ErrNoAntPath

validate_bee_move(gs, start, destination) ==
    IF validate_adjacent(gs, start, destination) # Ok
    THEN validate_adjacent(gs, start, destination)
    ELSE IF can_move_between(gs.board, start, destination) THEN Ok
         ELSE ErrCannotMoveBetween

validate_beetle_move(gs, start, destination) ==
    IF validate_adjacent(gs, start, destination) # Ok
    THEN validate_adjacent(gs, start, destination)
    ELSE IF \/ \E c \in shared_neighbors(gs.board, start, destination) :
                  has_pieces(gs.board[c])
            \/ (field(gs.board, destination).some
                /\ has_pieces(field(gs.board, destination).value))
         THEN Ok
         ELSE ErrBeetleAlongSwarm

\* The number of steps after which a line iterator that started next to a
\* field of the board has left the board for good.
LineFuel == 2 * BoardRadius

RECURSIVE line_any_empty(_, _, _)

\* `line_iter.map(AxialCoords::from).any(|c| field(c) is an empty field)`:
\* "true" at the first empty field, "false" when the iterator ends without
\* one, "noreturn" when the iterator never ends (it has left the board, only
\* fields that do not exist follow, and `current` never equals `destination`).
line_any_empty(b, it, fuel) ==
    LET n == line_next(it)
    IN  IF ~n.item.some THEN "false"
        ELSE LET c == axial_from_cube(n.item.value)
             IN  IF field(b, c).some /\ is_empty(field(b, c).value) THEN "true"
                 ELSE IF fuel = 0 THEN "noreturn"
                      ELSE line_any_empty(b, n.iter, fuel - 1)

validate_grasshopper_move(gs, start, destination) ==
    IF ~forms_line_with(start, destination) THEN ErrGrasshopperLine
    ELSE IF is_adjacent_to(start, destination) THEN ErrGrasshopperNeighbor
    ELSE LET over_empty == line_any_empty(gs.board, line_iter(start, destination), LineFuel)
         IN  IF over_empty = "true" THEN ErrGrasshopperEmpty
             ELSE IF over_empty = "noreturn" THEN NoReturn
             ELSE Ok

validate_spider_move(gs, start, destination) ==
    IF bfs_reachable_in_3_steps(gs.board, start, destination) THEN Ok ELSE ErrNoSpiderPath

validate_set_move(gs, color, piece_, destination) ==
    IF ~contains_coords(gs.board, destination) THEN ErrDestinationOutOfBounds
    ELSE IF (IF field(gs.board, destination).some
             THEN field(gs.board, destination).value.is_obstructed ELSE TRUE)
    THEN ErrDestinationObstructed
    ELSE IF ~(\E c \in DOMAIN gs.board : has_pieces(gs.board[c])) THEN Ok
    ELSE IF Cardinality(fields_owned_by(gs.board, color)) = 0
    THEN IF is_next_to(gs.board, opponent(color), destination) THEN Ok
         ELSE ErrNextToOpponent
    ELSE IF round(gs) = 3 /\ ~has_placed_bee(gs.board, color) /\ piece_.piece_type # "Bee"
    THEN ErrBeeFourthRound
    ELSE IF ~(piece_ \in Range(undeployed_pieces(gs, color))) THEN ErrNotUndeployed
    ELSE IF ~(\E c \in neighbors(gs.board, destination) : is_owned_by(gs.board[c], color))
    THEN ErrNotNextToOwn
    ELSE IF \E c \in neighbors(gs.board, destination) : is_owned_by(gs.board[c], color)
    THEN ErrNotNextToOpponent
    ELSE Ok

\* The board clone of validate_drag_move with the top piece of start popped.
without_piece(b, start) == [b EXCEPT ![start] = pop(@)]

validate_drag_move(gs, color, start, destination) ==
    IF ~has_placed_bee(gs.board, color) THEN ErrBeeBeforeDrag
    ELSE IF ~contains_coords(gs.board, start) THEN ErrStartOutOfBounds
    ELSE IF ~contains_coords(gs.board, destination) THEN ErrDestinationOutOfBounds
    ELSE IF piece(gs.board[start]).some
    THEN LET dragged_piece == piece(gs.board[start]).value
         IN  IF dragged_piece.owner # color THEN ErrOpponentsPiece
             ELSE IF start = destination THEN ErrStartIsDestination
             ELSE IF (IF piece(gs.board[destination]).some
                      THEN piece(gs.board[destination]).value.piece_type = "Beetle"
                      ELSE FALSE)
             THEN ErrOnlyBeetlesClimb
             ELSE IF ~is_swarm_connected(without_piece(gs.board, start))
             THEN ErrDisconnectsSwarm
             ELSE CASE dragged_piece.piece_type = "Ant" ->
                         validate_ant_move(gs, start, destination)
                    [] dragged_piece.piece_type = "Bee" ->
                         validate_bee_move(gs, start, destination)
                    [] dragged_piece.piece_type = "Beetle" ->
                         validate_beetle_move(gs, start, destination)
                    [] dragged_piece.piece_type = "Grasshopper" ->
                         validate_grasshopper_move(gs, start, destination)
                    [] dragged_piece.piece_type = "Spider" ->
                         validate_spider_move(gs, start, destination)
    ELSE ErrNoPiece

validate_move(gs, color, game_move) ==
    IF game_move.kind = "SetMove"
    THEN validate_set_move(gs, color, game_move.piece, game_move.destination)
    ELSE validate_drag_move(gs, color, game_move.start, game_move.destination)

\* ----------------------------------------------------------- move generator

\* The destination coordinates possible_set_moves collects.
set_move_destination_coords(gs, color) ==
    LET undeployed == undeployed_pieces(gs, color)
        opp        == SetToSeq(fields_owned_by(gs.board, opponent(color)))
    IN  IF Len(undeployed) = Len(INITIAL_PIECE_TYPES)
        THEN IF Len(undeployed_pieces(gs, opponent(color))) = Len(INITIAL_PIECE_TYPES)
             THEN SetToSeq(empty_fields(gs.board))
             ELSE Concat([ i \in 1..Len(opp) |-> empty_neighbors_seq(gs.board, opp[i]) ])
        ELSE SetToSeq(possible_set_move_destinations(gs.board, color))

possible_set_moves(gs, color) ==
    LET undeployed   == undeployed_pieces(gs, color)
        destinations == SelectSeq(set_move_destination_coords(gs, color),
                                  LAMBDA c : field(gs.board, c).some)
    IN  IF ~has_placed_bee(gs.board, color) /\ gs.turn > 5
        THEN [ i \in 1..Len(destinations) |->
                 SetMove([owner |-> color, piece_type |-> "Bee"], destinations[i]) ]
        ELSE Concat([ i \in 1..Len(destinations) |->
                 [ j \in 1..Len(undeployed) |-> SetMove(undeployed[j], destinations[i]) ] ])

\* The drag targets possible_drag_moves tries from one start field.
drag_targets(gs, start_coords) ==
    swarm_boundary(gs.board)
    \o (IF piece(gs.board[start_coords]).some
           /\ piece(gs.board[start_coords]).value.piece_type = "Beetle"
        THEN neighbors_seq(gs.board, start_coords)
        ELSE << >>)

\* The candidate drag moves of possible_drag_moves, before validation.
drag_candidates(gs, color) ==
    LET starts == SetToSeq(fields_owned_by(gs.board, color))
    IN  Concat([ i \in 1..Len(starts) |->
            LET targets == drag_targets(gs, starts[i])
            IN  [ j \in 1..Len(targets) |-> DragMove(starts[i], targets[j]) ] ])

\* Vec<Move> of a generator, with `returns` FALSE when computing it does not
\* return because a validation does not.
Moves(returns, moves) == [returns |-> returns, moves |-> moves]

possible_drag_moves(gs, color) ==
    LET candidates == drag_candidates(gs, color)
    IN  IF \E i \in 1..Len(candidates) : validate_move(gs, color, candidates[i]) = NoReturn
        THEN Moves(FALSE, << >>)
        ELSE Moves(TRUE, SelectSeq(candidates, LAMBDA m : validate_move(gs, color, m) = Ok))

possible_moves(gs, color) ==
    LET drags == possible_drag_moves(gs, color)
    IN  IF drags.returns
        THEN Moves(TRUE, possible_set_moves(gs, color) \o drags.moves)
        ELSE drags

\* ---------------------------------------------------------- ASCII hex grid

\* TryFrom<char> for PlayerColor.
player_color_try_from(c) ==
    IF c = "R" THEN Some("Red") ELSE IF c = "B" THEN Some("Blue") ELSE None

\* TryFrom<char> for PieceType.
piece_type_try_from(c) ==
    IF c = "A" THEN Some("Ant")
    ELSE IF c = "B" THEN Some("Bee")
    ELSE IF c = "T" THEN Some("Beetle")
    ELSE IF c = "G" THEN Some("Grasshopper")
    ELSE IF c = "S" THEN Some("Spider")
    ELSE None

\* FromStr for Field on a token of capital letters: the empty token is the
\* default field; a token of two letters is a field with one piece, the
\* first letter its owner, the second its type; anything else is an error
\* (None).
field_from_str(raw) ==
    IF raw = << >> THEN Some(default_field)
    ELSE IF Len(raw) # 2 THEN None
    ELSE LET o  == player_color_try_from(raw[1])
             pt == piece_type_try_from(raw[2])
         IN  IF o.some /\ pt.some
             THEN Some(Field(<< [owner |-> o.value, piece_type |-> pt.value] >>, FALSE))
             ELSE None

doubled_sub(a, b) == DoubledCoords(a.x - b.x, a.y - b.y)

doubled_div(a, r) == DoubledCoords(div_trunc(a.x, r), div_trunc(a.y, r))

\* The greatest element of a set of integers, 0 for the empty set.
max_or_0(S) == IF S = {} THEN 0 ELSE CHOOSE m \in S : \A n \in S : n <= m

\* Board::from_ascii_hex_grid on the rows of cells of the grid, each row the
\* trimmed fragments between its pipes.  A fragment that does not parse
\* becomes the default field; a later cell replaces an earlier one with the
\* same coordinates.
from_ascii_hex_grid(grid) ==
    LET double_positioned ==
            Concat([ r \in 1..Len(grid) |->
                [ k \in 1..Len(grid[r]) |->
                    [ c |-> DoubledCoords(2 * (k - 1) + (r % 2), r - 1),
                      f |-> IF field_from_str(grid[r][k]).some
                            THEN field_from_str(grid[r][k]).value
                            ELSE default_field ] ] ])
        cells  == 1..Len(double_positioned)
        center == doubled_div(
                      DoubledCoords(max_or_0({ double_positioned[i].c.x : i \in cells }),
                                    max_or_0({ double_positioned[i].c.y : i \in cells })),
                      2)
        key(i) == axial_from_doubled(doubled_sub(double_positioned[i].c, center))
    IN  [ a \in { key(i) : i \in cells } |->
            double_positioned[
                CHOOSE i \in cells :
                    key(i) = a /\ \A j \in cells : key(j) = a => j <= i ].f ]

\* ------------------------------------------------------------ state machine

VARIABLES
    turn,                     \* GameState::turn
    board,                    \* GameState::board
    undeployed_red_pieces,    \* GameState::undeployed_red_pieces
    undeployed_blue_pieces,   \* GameState::undeployed_blue_pieces
    call,                     \* the engine call made last on this position
    game_state_is_some,       \* SCClient::game_state is Some(GameState)
    packet,                   \* the packet the loop of run_game read last
    writer,                   \* the move packets written to the writer
    loop                      \* the loop of run_game: reading, closed, failed

position == << turn, board, undeployed_red_pieces, undeployed_blue_pieces >>

\* The client's side of the connection.
client == << game_state_is_some, packet, writer, loop >>

vars == << turn, board, undeployed_red_pieces, undeployed_blue_pieces, call,
           game_state_is_some, packet, writer, loop >>

\* The GameState the client holds (`self` of the engine's methods).
self == GameState(turn, board, undeployed_red_pieces, undeployed_blue_pieces)

NoCall == [op |-> "none"]

initial_pieces(color) ==
    [ i \in 1..Len(INITIAL_PIECE_TYPES) |->
        [owner |-> color, piece_type |-> INITIAL_PIECE_TYPES[i]] ]

pieces_on_board(b) ==
    LET cells == SetToSeq(DOMAIN b)
    IN  Len(Concat([ i \in 1..Len(cells) |-> b[cells[i]].piece_stack ]))

\* The fields with pieces form one group under adjacency (computed on sets,
\* independently of dfs_swarm).
RECURSIVE grow_group(_, _)
grow_group(b, group) ==
    LET more == { c \in DOMAIN b :
                    /\ has_pieces(b[c])
                    /\ c \notin group
                    /\ \E g \in group : is_adjacent_to(g, c) }
    IN  IF more = {} THEN group ELSE grow_group(b, group \cup more)

one_group(b) ==
    LET with_pieces == { c \in DOMAIN b : has_pieces(b[c]) }
    IN  \/ with_pieces = {}
        \/ \A c \in with_pieces : grow_group(b, {c}) = with_pieces

\* The color whose move leads to the next snapshot (the start color is Red).
mover == IF turn % 2 = 0 THEN "Red" ELSE "Blue"

remove_at(seq, i) == SubSeq(seq, 1, i - 1) \o SubSeq(seq, i + 1, Len(seq))

\* The room of the game.
RoomIds == { "room" }

\* Packet::Room(Room { event, room_id }) for an event without data the loop
\* looks at.
RoomPacket(room_id, event) == [kind |-> "Room", room_id |-> room_id, event |-> event]

\* The first snapshot of a game: turn 0, every piece undeployed, an empty
\* board with the given set of obstructed fields.
first_snapshot(obstructed) ==
    /\ turn = 0
    /\ board = filling_radius(BoardRadius, [ c \in obstructed |-> Field(<< >>, TRUE) ])
    /\ undeployed_red_pieces = initial_pieces("Red")
    /\ undeployed_blue_pieces = initial_pieces("Blue")
    /\ call = NoCall
    /\ game_state_is_some = TRUE
    /\ packet \in { RoomPacket(room_id, "Memento") : room_id \in RoomIds }
    /\ writer = << >>
    /\ loop = "reading"

\* A Memento replaces the game state by the snapshot after the mover set one
\* of its undeployed pieces onto an empty field next to the swarm.
MementoAfterSet(max_pieces, max_turn) ==
    /\ call = NoCall
    /\ loop = "reading"
    /\ game_state_is_some
    /\ \E room_id \in RoomIds : packet' = RoomPacket(room_id, "Memento")
    /\ UNCHANGED << game_state_is_some, writer, loop >>
    /\ turn < max_turn
    /\ pieces_on_board(board) < max_pieces
    /\ \E i \in 1..Len(undeployed_pieces(self, mover)), c \in DOMAIN board :
         /\ is_empty(board[c])
         /\ \A j \in 1..(i - 1) : undeployed_pieces(self, mover)[j]
                                    # undeployed_pieces(self, mover)[i]
         /\ board' = [board EXCEPT ![c] = push(@, undeployed_pieces(self, mover)[i])]
         /\ one_group(board')
         /\ IF mover = "Red"
            THEN /\ undeployed_red_pieces' = remove_at(undeployed_red_pieces, i)
                 /\ UNCHANGED undeployed_blue_pieces
            ELSE /\ undeployed_blue_pieces' = remove_at(undeployed_blue_pieces, i)
                 /\ UNCHANGED undeployed_red_pieces
    /\ turn' = turn + 1
    /\ call' = NoCall

\* A Memento replaces the game state by the snapshot after the mover dragged
\* the top piece of one of its fields to another field: an empty one, or for a
\* Beetle also an adjacent one with pieces.
MementoAfterDrag(max_turn) ==
    /\ call = NoCall
    /\ loop = "reading"
    /\ game_state_is_some
    /\ \E room_id \in RoomIds : packet' = RoomPacket(room_id, "Memento")
    /\ UNCHANGED << game_state_is_some, writer, loop >>
    /\ turn < max_turn
    /\ \E a \in fields_owned_by(board, mover), c \in DOMAIN board :
         /\ a # c
         /\ ~board[c].is_obstructed
         /\ \/ is_empty(board[c])
            \/ piece(board[a]).value.piece_type = "Beetle" /\ is_adjacent_to(a, c)
         /\ one_group(without_piece(board, a))
         /\ board' = [board EXCEPT ![a] = pop(@), ![c] = push(@, piece(board[a]).value)]
         /\ one_group(board')
    /\ turn' = turn + 1
    /\ UNCHANGED << undeployed_red_pieces, undeployed_blue_pieces >>
    /\ call' = NoCall

\* A coordinate outside every board of the model's radius.
off_board == AxialCoords(BoardRadius, 0)

\* The coordinates a caller passes: every field of the board, and one
\* coordinate that is not on the board.
CallCoords == all_coords(BoardRadius) \cup {off_board}

SetMoves == { SetMove(p, d) : p \in Piece, d \in CallCoords }

DragMoves == { DragMove(s, d) : s \in CallCoords, d \in CallCoords }

\* The set moves of a Bee.
BeeSetMoves ==
    { SetMove([owner |-> o, piece_type |-> "Bee"], d) : o \in PlayerColor, d \in CallCoords }

ValidateMoveOnBoard(moves) ==
    /\ call = NoCall
    /\ \E color \in PlayerColor, game_move \in moves :
         /\ call' = [op |-> "validate_move", color |-> color, game_move |-> game_move,
                     result |-> validate_move(self, color, game_move)]
         /\ board' = IF game_move.kind = "DragMove" /\ game_move.start \in DOMAIN board
                      THEN without_piece(board, game_move.start)
                      ELSE board
    /\ UNCHANGED << turn, undeployed_red_pieces, undeployed_blue_pieces >>
    /\ UNCHANGED client

\* GameState::validate_move(color, game_move) on the current position; the
\* call borrows the position and records its result.
ValidateMove(moves) ==
    /\ call = NoCall
    /\ \E color \in PlayerColor, game_move \in moves :
         call' = [op |-> "validate_move", color |-> color, game_move |-> game_move,
                  result |-> validate_move(self, color, game_move)]
    /\ UNCHANGED << position, client >>

\* GameState::possible_moves(color) on the current position.
PossibleMoves ==
    /\ call = NoCall
    /\ \E color \in PlayerColor :
         call' = [op |-> "possible_moves", color |-> color,
                  result |-> possible_moves(self, color)]
    /\ UNCHANGED << position, client >>

\* The caller is done with the result of its call.
DropResult ==
    /\ call # NoCall
    /\ call' = NoCall
    /\ UNCHANGED << position, client >>

\* Board::bfs_reachable_in_3_steps(start, destination) on the board of the
\* current position; its caller validate_spider_move passes the field of the
\* dragged piece as start.
BfsReachableIn3Steps ==
    /\ call = NoCall
    /\ \E start \in { c \in DOMAIN board : has_pieces(board[c]) },
          destination \in CallCoords :
         call' = [op |-> "bfs_reachable_in_3_steps", start |-> start,
                  destination |-> destination,
                  result |-> bfs_reachable_in_3_steps(board, start, destination)]
    /\ UNCHANGED << position, client >>

\* Board::connected_by_boundary_path(start, destination) on the board of the
\* current position.
ConnectedByBoundaryPath ==
    /\ call = NoCall
    /\ \E start \in CallCoords, destination \in CallCoords :
         call' = [op |-> "connected_by_boundary_path", start |-> start,
                  destination |-> destination,
                  result |-> connected_by_boundary_path(board, start, destination)]
    /\ UNCHANGED << position, client >>

\* Board::is_swarm_connected on the clone validate_drag_move makes: the
\* board of the position with the top piece of one field popped.  The search
\* starts at whichever element the HashSet iterator yields first.
IsSwarmConnected ==
    /\ call = NoCall
    /\ \E popped \in DOMAIN board :
         LET clone     == without_piece(board, popped)
             unvisited == { c \in DOMAIN clone : has_pieces(clone[c]) }
         IN  IF unvisited = {}
             THEN call' = [op |-> "is_swarm_connected", board |-> clone,
                           result |-> TRUE]
             ELSE \E start \in unvisited :
                     call' = [op |-> "is_swarm_connected", board |-> clone,
                              result |-> is_swarm_connected_from(clone, start)]
    /\ UNCHANGED << position, client >>

\* The exceptions a caller passes: none, or the field of the piece it moves.
Exceptions == {None} \cup { Some(c) : c \in { d \in DOMAIN board : has_pieces(board[d]) } }

\* Board::shared_neighbors(a, b, exception) of game/board.rs on the board of
\* the current position.
SharedNeighbors ==
    /\ call = NoCall
    /\ \E a \in DOMAIN board, b \in CallCoords, exception \in Exceptions :
         call' = [op |-> "shared_neighbors", a |-> a, b |-> b, exception |-> exception,
                  result |-> shared_neighbors_except(board, a, b, exception)]
    /\ UNCHANGED << position, client >>

\* Board::can_move_between(a, b) of game.rs on the board of the current
\* position.
CanMoveBetween ==
    /\ call = NoCall
    /\ \E a \in DOMAIN board, b \in CallCoords :
         call' = [op |-> "can_move_between", a |-> a, b |-> b,
                  result |-> can_move_between(board, a, b)]
    /\ UNCHANGED << position, client >>

\* Board::can_move_between(a, b) of game/board.rs on the board of the
\* current position.
BoardCanMoveBetween ==
    /\ call = NoCall
    /\ \E a \in DOMAIN board, b \in CallCoords :
         call' = [op |-> "board_can_move_between", a |-> a, b |-> b,
                  result |-> board_can_move_between(board, a, b)]
    /\ UNCHANGED << position, client >>

\* The axial coordinates of the fields of the board of BOARD_RADIUS.
UtilCoords == all_coords(BOARD_RADIUS)

\* lhs + rhs on the cube coordinates of two fields.
CubeAdd ==
    /\ call = NoCall
    /\ \E a \in UtilCoords, b \in UtilCoords :
         call' = [op |-> "cube_add", lhs |-> cube_from_axial(a), rhs |-> cube_from_axial(b),
                  result |-> cube_add(cube_from_axial(a), cube_from_axial(b))]
    /\ UNCHANGED << position, client >>

\* lhs - rhs on the cube coordinates of two fields.
CubeSub ==
    /\ call = NoCall
    /\ \E a \in UtilCoords, b \in UtilCoords :
         call' = [op |-> "cube_sub", lhs |-> cube_from_axial(a), rhs |-> cube_from_axial(b),
                  result |-> cube_sub(cube_from_axial(a), cube_from_axial(b))]
    /\ UNCHANGED << position, client >>

\* start.line_iter(destination) for two fields on a line, collected.
LineIter ==
    /\ call = NoCall
    /\ \E a \in UtilCoords, b \in UtilCoords :
         /\ forms_line_with(a, b)
         /\ call' = [op |-> "line_iter", start |-> a, destination |-> b,
                     result |-> line_items(line_iter(a, b), 2 * BOARD_RADIUS)]
    /\ UNCHANGED << position, client >>

\* The doubled coordinates a caller converts: x and y of equal parity.
DoubledInputs ==
    { c \in { DoubledCoords(x, y) : x \in (0 - 2 * BOARD_RADIUS)..(2 * BOARD_RADIUS),
                                    y \in (0 - BOARD_RADIUS)..BOARD_RADIUS } :
        (c.x + c.y) % 2 = 0 }

\* AxialCoords::from(doubled) for a doubled coordinate.
DoubledToAxial ==
    /\ call = NoCall
    /\ \E c \in DoubledInputs :
         call' = [op |-> "doubled_to_axial", doubled |-> c,
                  result |-> axial_from_doubled(c)]
    /\ UNCHANGED << position, client >>

\* The cell tokens of the grids: a blank cell and three tokens of the test
\* grids.
GridTokens == { << >>, << "G", "R" >>, << "A", "B" >>, << "B", "B" >> }

\* The grid of test_filled_ascii_hex_grid.
FilledGrid ==
    << << << >>, << >>, << >> >>,
       << << >>, << "B", "R" >>, << "A", "B" >>, << "A", "B" >> >>,
       << << >>, << "G", "R" >>, << >> >>,
       << << >>, << >>, << >>, << >> >>,
       << << >>, << >>, << >> >> >>

\* The grids parsed: the seven cells of test_empty_ascii_hex_grid with every
\* choice of tokens, and the grid of test_filled_ascii_hex_grid.
Grids ==
    { << << t[1], t[2] >>, << t[3], t[4], t[5] >>, << t[6], t[7] >> >> :
        t \in [1..7 -> GridTokens] } \cup { FilledGrid }

\* Board::from_ascii_hex_grid(grid).
FromAsciiHexGrid ==
    /\ call = NoCall
    /\ \E grid \in Grids :
         call' = [op |-> "from_ascii_hex_grid", grid |-> grid,
                  result |-> from_ascii_hex_grid(grid)]
    /\ UNCHANGED << position, client >>

\* c.coord_neighbors() for the coordinate of a field.
CoordNeighbors ==
    /\ call = NoCall
    /\ \E c \in UtilCoords :
         call' = [op |-> "coord_neighbors", coords |-> c, result |-> coord_neighbors(c)]
    /\ UNCHANGED << position, client >>

\* lhs.is_adjacent_to(rhs) for the coordinates of two fields.
IsAdjacentTo ==
    /\ call = NoCall
    /\ \E a \in UtilCoords, b \in UtilCoords :
         call' = [op |-> "is_adjacent_to", lhs |-> a, rhs |-> b,
                  result |-> is_adjacent_to(a, b)]
    /\ UNCHANGED << position, client >>

\* The conversions of an axial coordinate to cube and to doubled coordinates
\* and back.
Convert ==
    /\ call = NoCall
    /\ \E a \in UtilCoords :
         call' = [op |-> "convert", axial |-> a,
                  cube |-> cube_from_axial(a),
                  from_cube |-> axial_from_cube(cube_from_axial(a)),
                  doubled |-> doubled_from_axial(a),
                  from_doubled |-> axial_from_doubled(doubled_from_axial(a))]
    /\ UNCHANGED << position, client >>

\* The fields a decoded snapshot supplies to filling_radius: none, a field
\* of the board, a field with coordinates outside the radius.
SuppliedFields ==
    { [ c \in S |-> Field(<< >>, TRUE) ] :
        S \in SUBSET { AxialCoords(0, 0), AxialCoords(BOARD_RADIUS, 0) } }

\* Board::filling_radius(radius, fields).
FillingRadius ==
    /\ call = NoCall
    /\ \E radius \in 1..BOARD_RADIUS, fields \in SuppliedFields :
         call' = [op |-> "filling_radius", radius |-> radius, fields |-> fields,
                  result |-> filling_radius(radius, fields)]
    /\ UNCHANGED << position, client >>

\* The fields the first snapshot marks as obstructed.
ObstructedFields == { AxialCoords(1, 0 - 1) }

Init == first_snapshot(ObstructedFields)

\* SCClient::new followed by the start of run_game: no game state is stored
\* (the variables of the position hold no snapshot), nothing is read or
\* written yet.
InitClient ==
    /\ turn = 0
    /\ board = << >>
    /\ undeployed_red_pieces = << >>
    /\ undeployed_blue_pieces = << >>
    /\ call = NoCall
    /\ game_state_is_some = FALSE
    /\ packet = [kind |-> "protocol"]
    /\ writer = << >>
    /\ loop = "reading"

\* Event::Memento with the first snapshot of the game; the state is stored.
FirstMemento ==
    /\ call = NoCall
    /\ loop = "reading"
    /\ ~game_state_is_some
    /\ \E room_id \in RoomIds : packet' = RoomPacket(room_id, "Memento")
    /\ turn' = 0
    /\ board' = filling_radius(BoardRadius,
                               [ c \in ObstructedFields |-> Field(<< >>, TRUE) ])
    /\ undeployed_red_pieces' = initial_pieces("Red")
    /\ undeployed_blue_pieces' = initial_pieces("Blue")
    /\ game_state_is_some' = TRUE
    /\ UNCHANGED << call, writer, loop >>

\* The packets the loop logs or hands to a delegate callback, leaving the
\* stored state and the writer alone: the events WelcomeMessage, Result,
\* Error and Move, and the packets Joined and Left.
LoggedPackets ==
    { RoomPacket(room_id, event) :
        room_id \in RoomIds, event \in {"WelcomeMessage", "Result", "Error", "Move"} }
    \cup { [kind |-> kind, room_id |-> room_id] :
             kind \in {"Joined", "Left"}, room_id \in RoomIds }

LoggedPacket ==
    /\ call = NoCall
    /\ loop = "reading"
    /\ packet' \in LoggedPackets
    /\ UNCHANGED << position, call, game_state_is_some, writer, loop >>

\* The moves a delegate answers a request with: it sets the Bee of the color
\* onto the first or the last empty field of the state it is given.
DelegateMoves(state, my_color) ==
    LET empty == SetToSeq(empty_fields(state.board))
    IN  { SetMove([owner |-> my_color, piece_type |-> "Bee"], empty[i]) :
            i \in { 1, Len(empty) } }

\* Packet::Room(Room { room_id, event: Event::Move { move } }).
MovePacket(room_id, new_move) ==
    [kind |-> "Room", room_id |-> room_id, event |-> "Move", move |-> new_move]

\* Event::MoveRequest handled as if a state were always stored.
MoveRequestUnchecked ==
    /\ call = NoCall
    /\ loop = "reading"
    /\ Len(writer) < MaxWritten
    /\ \E room_id \in RoomIds :
         /\ packet' = RoomPacket(room_id, "MoveRequest")
         /\ call' = [op |-> "request_move", state |-> self, color |-> mover,
                     result |-> SetMove([owner |-> mover, piece_type |-> "Bee"],
                                        AxialCoords(0, 0))]
         /\ writer' = Append(writer, MovePacket(room_id, call'.result))
    /\ UNCHANGED << position, game_state_is_some, loop >>

\* Event::MoveRequest: with a stored state the delegate is asked for a move
\* on that state and the color to move in it, and the move packet is written
\* and flushed (a failing write ends run_game with the error); without a
\* stored state an error is logged.
MoveRequest ==
    /\ call = NoCall
    /\ loop = "reading"
    /\ \E room_id \in RoomIds :
         /\ packet' = RoomPacket(room_id, "MoveRequest")
         /\ IF game_state_is_some
            THEN /\ Len(writer) < MaxWritten
                 /\ \E new_move \in DelegateMoves(self, mover) :
                      /\ call' = [op |-> "request_move", state |-> self,
                                  color |-> mover, result |-> new_move]
                      /\ \/ /\ writer' = Append(writer, MovePacket(room_id, new_move))
                            /\ loop' = loop
                         \/ /\ writer' = writer
                            /\ loop' = "failed"
            ELSE UNCHANGED << call, writer, loop >>
    /\ UNCHANGED << position, game_state_is_some >>

\* Packet::Close: the loop breaks and run_game returns Ok.
Close ==
    /\ call = NoCall
    /\ loop = "reading"
    /\ packet' = [kind |-> "Close"]
    /\ loop' = "closed"
    /\ UNCHANGED << position, call, game_state_is_some, writer >>

\* from_reader fails: run_game returns the error.
ReadError ==
    /\ call = NoCall
    /\ loop = "reading"
    /\ packet' = [kind |-> "Err"]
    /\ loop' = "failed"
    /\ UNCHANGED << position, call, game_state_is_some, writer >>

\* Drag moves and the generator, on positions with up to MaxPieces pieces.
Next ==
    \/ MementoAfterSet(MaxPieces, MaxPieces)
    \/ MementoAfterDrag(MaxPieces)
    \/ ValidateMove(DragMoves)
    \/ PossibleMoves
    \/ DropResult

Spec == Init /\ [][Next]_vars

\* Set moves and the generator, on positions with up to MaxSetPieces pieces,
\* at turns up to MaxTurn.
NextSet ==
    \/ MementoAfterSet(MaxSetPieces, MaxTurn)
    \/ MementoAfterDrag(MaxTurn)
    \/ ValidateMove(SetMoves)
    \/ PossibleMoves
    \/ DropResult

SpecSet == Init /\ [][NextSet]_vars

\* The searches of Board, on positions with up to MaxPieces pieces.
NextBoard ==
    \/ MementoAfterSet(MaxPieces, MaxPieces)
    \/ MementoAfterDrag(MaxPieces)
    \/ BfsReachableIn3Steps
    \/ ConnectedByBoundaryPath
    \/ IsSwarmConnected
    \/ DropResult

SpecBoard == Init /\ [][NextBoard]_vars

\* Set moves of a Bee, on positions with up to MaxPieces pieces, stacks among
\* them, at turns up to MaxStackTurn.
NextStack ==
    \/ MementoAfterSet(MaxPieces, MaxStackTurn)
    \/ MementoAfterDrag(MaxStackTurn)
    \/ ValidateMove(BeeSetMoves)
    \/ DropResult

SpecStack == Init /\ [][NextStack]_vars

\* The packet loop of the client, on snapshots with up to MaxSetPieces pieces
\* at turns up to MaxClientTurn.
NextClient ==
    \/ FirstMemento
    \/ MementoAfterSet(MaxSetPieces, MaxClientTurn)
    \/ MementoAfterDrag(MaxClientTurn)
    \/ LoggedPacket
    \/ MoveRequest
    \/ Close
    \/ ReadError
    \/ DropResult

SpecClient == InitClient /\ [][NextClient]_vars

\* The sliding rule of Board, on positions with up to MaxSetPieces pieces.
NextSlide ==
    \/ MementoAfterSet(MaxSetPieces, MaxPieces)
    \/ MementoAfterDrag(MaxPieces)
    \/ SharedNeighbors
    \/ CanMoveBetween
    \/ BoardCanMoveBetween
    \/ DropResult

SpecSlide == Init /\ [][NextSlide]_vars

\* The coordinate arithmetic and the board constructor on the coordinates of
\* the board of BOARD_RADIUS.
NextUtil ==
    \/ CubeAdd
    \/ CubeSub
    \/ LineIter
    \/ Convert
    \/ DoubledToAxial
    \/ CoordNeighbors
    \/ IsAdjacentTo
    \/ FromAsciiHexGrid
    \/ FillingRadius
    \/ DropResult

SpecUtil == Init /\ [][NextUtil]_vars

\* ------------------------------------------------------------------ claims

IsValidateSet == call.op = "validate_move" /\ call.game_move.kind = "SetMove"

IsValidateDrag == call.op = "validate_move" /\ call.game_move.kind = "DragMove"

IsPossibleMoves == call.op = "possible_moves"

\* The call returned Err(reason).
Rejected(result) == result # Ok /\ result # NoReturn

\* Some field right next to `coords` has a top piece of the given color.
TouchesColor(color, coords) ==
    \E c \in DOMAIN board :
       /\ is_adjacent_to(coords, c)
       /\ board[c].piece_stack # << >>
       /\ board[c].piece_stack[Len(board[c].piece_stack)].owner = color

\* `coords` is a field of the board that is not obstructed.
FreeOfObstruction(coords) == coords \in DOMAIN board /\ ~board[coords].is_obstructed

\* Some stack of the board holds the Bee of the given color, at any height.
BeeInSomeStack(color) ==
    \E c \in DOMAIN board :
       [owner |-> color, piece_type |-> "Bee"] \in Range(board[c].piece_stack)

\* The validator's Bee-forced rule as the claims state it.
BeeForced(color) == turn \in {6, 7} /\ ~BeeInSomeStack(color)

\* The top piece of `coords`, for a field with pieces.
TopPiece(coords) == board[coords].piece_stack[Len(board[coords].piece_stack)]

\* The general checks of a drag move with a piece of the given type: the Bee
\* of the color is placed, start holds a piece of the color of that type on
\* top, destination is another field of the board, and the pieces stay one
\* group when the top piece of start is taken away.
PassesGeneralChecks(color, game_move, piece_type) ==
    /\ BeeInSomeStack(color)
    /\ game_move.start \in DOMAIN board
    /\ game_move.destination \in DOMAIN board
    /\ game_move.start # game_move.destination
    /\ board[game_move.start].piece_stack # << >>
    /\ TopPiece(game_move.start) = [owner |-> color, piece_type |-> piece_type]
    /\ one_group(without_piece(board, game_move.start))

\* C1: every move possible_moves(color) returns, set move or drag move, is
\* accepted by validate_move(color, move) on the same position.
C1_GeneratedMovesAreValid ==
    IsPossibleMoves =>
        /\ call.result.returns
        /\ \A m \in Range(call.result.moves) : validate_move(self, call.color, m) = Ok

\* C2: every set move or drag move validate_move(color, m) accepts is among
\* the moves possible_moves(color) returns.
C2_ValidMovesAreGenerated ==
    IsPossibleMoves =>
        \A m \in SetMoves \cup DragMoves :
            validate_move(self, call.color, m) = Ok => m \in Range(call.result.moves)

\* C3: placement containment rule.  When the color owns a field, the
\* Bee-forced rule does not apply and the piece is undeployed, a set move is
\* accepted iff its destination is on the board, not obstructed, next to a
\* field of the color and next to no field of the opponent.
C3_PlacementContainment ==
    ( /\ IsValidateSet
      /\ fields_owned_by(board, call.color) # {}
      /\ ~(BeeForced(call.color) /\ call.game_move.piece.piece_type # "Bee")
      /\ call.game_move.piece \in Range(undeployed_pieces(self, call.color)) )
    => ( call.result = Ok
         <=> /\ FreeOfObstruction(call.game_move.destination)
             /\ TouchesColor(call.color, call.game_move.destination)
             /\ ~TouchesColor(opponent(call.color), call.game_move.destination) )

\* C4: a drag move onto a destination that holds pieces is not accepted
\* unless the piece on top of the start field is a Beetle.
C4_OnlyBeetlesClimb ==
    ( /\ IsValidateDrag
      /\ call.game_move.destination \in DOMAIN board
      /\ board[call.game_move.destination].piece_stack # << >>
      /\ ~( /\ call.game_move.start \in DOMAIN board
            /\ board[call.game_move.start].piece_stack # << >>
            /\ TopPiece(call.game_move.start).piece_type = "Beetle" ) )
    => call.result # Ok

\* Taking the top piece of start away leaves pieces that are not one group.
RemovalDisconnects(start) ==
    /\ start \in DOMAIN board
    /\ board[start].piece_stack # << >>
    /\ ~one_group([board EXCEPT ![start].piece_stack = SubSeq(@, 1, Len(@) - 1)])

\* C5: a drag move is rejected whenever taking the top piece of start away
\* leaves the swarm disconnected, and it is rejected with the "would
\* disconnect the swarm" reason only then.
C5_DisconnectingDragRejected ==
    IsValidateDrag =>
        /\ RemovalDisconnects(call.game_move.start) => Rejected(call.result)
        /\ call.result = ErrDisconnectsSwarm => RemovalDisconnects(call.game_move.start)

C5_Witness ==
    /\ IsValidateDrag
    /\ RemovalDisconnects(call.game_move.start)
    /\ call.result = ErrDisconnectsSwarm

\* The board holds pieces.
AnyPiece == \E c \in DOMAIN board : board[c].piece_stack # << >>

\* The color has the top piece of some field.
OwnsAField(color) ==
    \E c \in DOMAIN board :
       board[c].piece_stack # << >> /\ TopPiece(c).owner = color

\* C6: second placement.  When the board holds pieces but the color owns no
\* field, a set move is accepted iff its destination is on the board, not
\* obstructed and next to a field of the opponent; on a board without pieces
\* every on-board destination that is not obstructed is accepted.
C6_SecondPlacement ==
    IsValidateSet =>
        /\ (AnyPiece /\ ~OwnsAField(call.color))
             => ( call.result = Ok
                  <=> /\ FreeOfObstruction(call.game_move.destination)
                      /\ TouchesColor(opponent(call.color), call.game_move.destination) )
        /\ (~AnyPiece /\ FreeOfObstruction(call.game_move.destination))
             => call.result = Ok

C6_Witness ==
    /\ IsValidateSet
    /\ AnyPiece
    /\ ~OwnsAField(call.color)
    /\ TouchesColor(opponent(call.color), call.game_move.destination)
    /\ call.result = Ok

\* The set moves among the moves a possible_moves call returned.
GeneratedSetMoves == { m \in Range(call.result.moves) : m.kind = "SetMove" }

\* C7: the generator restricts the set moves to the Bee exactly when the
\* Bee-forced rule is active (turn 6 or 7, Bee of the color not on the board);
\* in every other position it offers every undeployed piece of the color at
\* every candidate destination.
C7_BeeOnlyWhenForced ==
    IsPossibleMoves =>
        /\ BeeForced(call.color)
             => \A m \in GeneratedSetMoves :
                   m.piece = [owner |-> call.color, piece_type |-> "Bee"]
        /\ ~BeeForced(call.color)
             => \A d \in Range(set_move_destination_coords(self, call.color)) :
                   \A p \in Range(undeployed_pieces(self, call.color)) :
                      SetMove(p, d) \in GeneratedSetMoves

\* C8: every drag move of a color whose Bee is in no stack of the board is
\* rejected, and a Bee anywhere in a stack counts as placed: the "Bee has to
\* be placed" reason is given only when no stack holds the Bee.
C8_BeeBeforeDrag ==
    IsValidateDrag =>
        /\ ~BeeInSomeStack(call.color) => Rejected(call.result)
        /\ call.result = ErrBeeBeforeDrag => ~BeeInSomeStack(call.color)

\* The Bee of the color lies in a stack below another piece.
BeeIsCovered(color) ==
    \E c \in DOMAIN board : \E i \in 1..(Len(board[c].piece_stack) - 1) :
       board[c].piece_stack[i] = [owner |-> color, piece_type |-> "Bee"]

C8_Witness ==
    /\ IsValidateDrag
    /\ BeeIsCovered(call.color)
    /\ call.result # ErrBeeBeforeDrag

\* The hex distance of two coordinates.
abs(n) == IF n < 0 THEN 0 - n ELSE n

hex_distance(a, b) ==
    max(abs(a.x - b.x), max(abs(a.y - b.y), abs((a.x + a.y) - (b.x + b.y))))

\* a and b lie on a line of the hex grid.
OnCommonLine(a, b) == a.x = b.x \/ a.y = b.y \/ a.x + a.y = b.x + b.y

\* The fields strictly between a and b, for a and b on a common line.
StrictlyBetween(a, b) ==
    { c \in DOMAIN board :
        /\ c # a /\ c # b
        /\ OnCommonLine(a, c) /\ OnCommonLine(c, b)
        /\ hex_distance(a, c) + hex_distance(c, b) = hex_distance(a, b) }

\* The jump from start to destination the Grasshopper rule allows.
GrasshopperJump(start, destination) ==
    /\ OnCommonLine(start, destination)
    /\ hex_distance(start, destination) > 1
    /\ \A c \in StrictlyBetween(start, destination) : field_is_occupied(board[c])

\* C9: Grasshopper rule.  A Grasshopper drag move that passes the general
\* checks is accepted when start and destination lie on a common line, are
\* not adjacent and every field strictly between them is occupied: the jump
\* over a straight row of occupied fields onto the empty field behind them
\* is legal.
C9_GrasshopperRule ==
    ( /\ IsValidateDrag
      /\ PassesGeneralChecks(call.color, call.game_move, "Grasshopper")
      /\ GrasshopperJump(call.game_move.start, call.game_move.destination)
      /\ is_empty(board[call.game_move.destination]) )
    => call.result = Ok

\* C10: a Beetle drag move that passes the general checks is accepted iff
\* destination is next to start and a field next to both holds a piece or
\* destination itself holds pieces.
C10_BeetleRule ==
    ( IsValidateDrag /\ PassesGeneralChecks(call.color, call.game_move, "Beetle") )
    => ( call.result = Ok
         <=> /\ hex_distance(call.game_move.start, call.game_move.destination) = 1
             /\ \/ \E c \in DOMAIN board :
                      /\ hex_distance(c, call.game_move.start) = 1
                      /\ hex_distance(c, call.game_move.destination) = 1
                      /\ board[c].piece_stack # << >>
                \/ board[call.game_move.destination].piece_stack # << >> )

\* start, c1, c2, destination is a path of three steps, each onto an
\* accessible neighbour, that visits no field twice.
ThreeStepPath(b, start, destination) ==
    /\ start \in DOMAIN b
    /\ \E c1 \in accessible_neighbors(b, start) \ {start} :
          \E c2 \in accessible_neighbors(b, c1) \ {start, c1} :
             destination \in accessible_neighbors(b, c2) \ {start, c1, c2}

\* C11: Spider rule.  bfs_reachable_in_3_steps(start, destination) is true
\* iff there are fields c1, c2 with start, c1, c2, destination pairwise
\* distinct, c1 an accessible neighbour of start, c2 of c1 and destination of
\* c2; a destination reached only by paths of another length is refused.
C11_SpiderThreeSteps ==
    call.op = "bfs_reachable_in_3_steps" =>
        (call.result <=> ThreeStepPath(board, call.start, call.destination))

C11_Witness ==
    /\ call.op = "bfs_reachable_in_3_steps"
    /\ call.result
    /\ call.start \in DOMAIN board
    /\ piece(board[call.start]) = Some([owner |-> "Red", piece_type |-> "Spider"])

\* C12 (as stated): connected_by_boundary_path is symmetric for every board
\* and all coordinates a and b, also when a holds the piece to be moved and
\* b is empty.
C12_BoundaryPathSymmetric ==
    call.op = "connected_by_boundary_path" =>
        call.result = connected_by_boundary_path(board, call.destination, call.start)

\* `coords` is a field of the board without pieces that is not obstructed.
IsEmptyField(coords) == coords \in DOMAIN board /\ is_empty(board[coords])

\* C12 (amended): connected_by_boundary_path(a, b) equals
\* connected_by_boundary_path(b, a) when a and b are both empty fields; a
\* search never arrives at a field that is not empty, so from another start
\* connected_by_boundary_path(b, a) is false whenever a holds pieces or is
\* obstructed, whatever connected_by_boundary_path(a, b) is.
C12_BoundaryPathSymmetricOnEmpty ==
    call.op = "connected_by_boundary_path" =>
        /\ (IsEmptyField(call.start) /\ IsEmptyField(call.destination))
             => call.result
                  = connected_by_boundary_path(board, call.destination, call.start)
        /\ (~IsEmptyField(call.destination) /\ call.start # call.destination)
             => ~call.result

C12_Witness ==
    /\ call.op = "connected_by_boundary_path"
    /\ IsEmptyField(call.start)
    /\ IsEmptyField(call.destination)
    /\ call.start # call.destination
    /\ ~is_adjacent_to(call.start, call.destination)
    /\ call.result
    /\ connected_by_boundary_path(board, call.destination, call.start)

\* C13: is_swarm_connected returns true iff the fields with pieces form at
\* most one connected component under adjacency (true without pieces, false
\* with two clusters that share no adjacency), whichever field with pieces
\* the depth-first search starts from.
C13_SwarmConnectedIffOneComponent ==
    call.op = "is_swarm_connected" => (call.result <=> one_group(call.board))

C13_Witness ==
    /\ call.op = "is_swarm_connected"
    /\ ~call.result
    /\ ~one_group(call.board)

\* C14: validate_move and possible_moves leave the position unchanged: the
\* piece stack and obstructed flag of every field, both lists of undeployed
\* pieces and the turn are after the call what they were before it, whatever
\* the result; the removal for the connectivity test happens on a clone.
C14_CallsLeavePositionUnchanged ==
    [][ call'.op \in {"validate_move", "possible_moves"} => position' = position ]_vars

C14_Witness ==
    /\ IsValidateDrag
    /\ call.result = Ok
    /\ has_pieces(board[call.game_move.start])
    /\ TopPiece(call.game_move.start).owner = call.color
    /\ board # without_piece(board, call.game_move.start)

\* C15: validate_move terminates and returns Ok or Err(reason) for every
\* position, color and candidate move.
C15_ValidateMoveReturns ==
    call.op = "validate_move" => call.result # NoReturn

\* C20: possible_moves(color) holds no move twice.
C20_NoMoveTwice ==
    (IsPossibleMoves /\ call.result.returns) =>
        \A i \in 1..Len(call.result.moves) : \A j \in 1..Len(call.result.moves) :
            i # j => call.result.moves[i] # call.result.moves[j]

\* The components of a cube coordinate sum to zero.
IsValidCube(c) == c.x + c.y + c.z = 0

\* C16: every CubeCoords value derived from valid inputs - the conversion of
\* an axial coordinate, the sum and the difference of two valid cube
\* coordinates, every element line_iter yields - satisfies x + y + z = 0.
C16_CubeCoordsSumToZero ==
    /\ call.op = "convert" => IsValidCube(call.cube)
    /\ call.op \in {"cube_add", "cube_sub"} =>
          ((IsValidCube(call.lhs) /\ IsValidCube(call.rhs)) => IsValidCube(call.result))
    /\ call.op = "line_iter" =>
          \A i \in 1..Len(call.result) : IsValidCube(call.result[i])

\* C17: for every axial coordinate within the board radius, axial -> cube ->
\* axial and axial -> doubled -> axial return the original coordinate.
C17_ConversionRoundTrips ==
    call.op = "convert" =>
        /\ call.from_cube = call.axial
        /\ call.from_doubled = call.axial

C17_Witness ==
    /\ call.op = "convert"
    /\ call.axial = AxialCoords(0 - 2, 1)
    /\ call.doubled = DoubledCoords(0 - 3, 1)
    /\ call.cube = CubeCoords(0 - 2, 1, 1)
    /\ call.from_doubled = AxialCoords(0 - 2, 1)
    /\ call.from_cube = AxialCoords(0 - 2, 1)

RECURSIVE FieldCountOf(_)

\* f(1) = 1, f(r) = f(r - 1) + 6 (r - 1).
FieldCountOf(r) == IF r <= 1 THEN 1 ELSE FieldCountOf(r - 1) + 6 * (r - 1)

\* C18: a board built for radius r from no fields has f(r) fields, with
\* f(1) = 1 and f(r) = f(r - 1) + 6 (r - 1): 19 for r = 3 and FIELD_COUNT = 91
\* for BOARD_RADIUS = 6.
C18_FieldCount ==
    /\ FieldCountOf(3) = 19
    /\ FieldCountOf(BOARD_RADIUS) = FIELD_COUNT
    /\ (call.op = "filling_radius" /\ DOMAIN call.fields = {})
          => Cardinality(DOMAIN call.result) = FieldCountOf(call.radius)

C18_Witness ==
    /\ call.op = "filling_radius"
    /\ DOMAIN call.fields = {}
    /\ call.radius = BOARD_RADIUS
    /\ Cardinality(DOMAIN call.result) = FIELD_COUNT

\* The axial coordinates within the radius: max(|x|, |y|, |x + y|) < radius.
WithinRadius(radius) ==
    { c \in [x : (0 - radius)..radius, y : (0 - radius)..radius] :
        max(abs(c.x), max(abs(c.y), abs(c.x + c.y))) <= radius - 1 }

\* C19: every board filling_radius(6, fields) produces holds exactly the
\* coordinates within the radius, whatever coordinates the supplied fields
\* carry.
C19_BoardHoldsExactlyTheRadius ==
    (call.op = "filling_radius" /\ call.radius = BOARD_RADIUS)
        => DOMAIN call.result = WithinRadius(BOARD_RADIUS)

\* The fields of the board adjacent to both a1 and b1 (computed from
\* is_adjacent_to, independently of neighbors).
AdjacentToBoth(a1, b1) ==
    { c \in DOMAIN board : is_adjacent_to(a1, c) /\ is_adjacent_to(b1, c) }

\* The sliding rule over the fields adjacent to both ends: one of them holds
\* a piece, and there is a single one or one of them is empty.
SlideAllowed(a1, b1) ==
    /\ \/ Cardinality(AdjacentToBoth(a1, b1)) = 1
       \/ \E c \in AdjacentToBoth(a1, b1) : IsEmptyField(c)
    /\ \E c \in AdjacentToBoth(a1, b1) : board[c].piece_stack # << >>

\* C21: can_move_between(a, b) is true exactly when the fields of the board
\* adjacent to both a and b include one holding a piece and either are a
\* single field or include an empty one - in the Board of game.rs and in the
\* Board of game/board.rs.
C21_CanMoveBetweenIsSlidingRule ==
    (call.op \in {"can_move_between", "board_can_move_between"}) =>
        (call.result <=> SlideAllowed(call.a, call.b))

\* C22: shared_neighbors(a, b, exception) returns exactly the fields of the
\* board adjacent to both a and b, leaving out only the field of the
\* exception when that field holds exactly one piece; without an exception
\* it leaves out nothing.
C22_SharedNeighborsLeaveOutOnlyException ==
    (call.op = "shared_neighbors") =>
        call.result =
            { c \in AdjacentToBoth(call.a, call.b) :
                ~(call.exception = Some(c) /\ Len(board[c].piece_stack) = 1) }

\* The cells strictly between a and b on their common line, from a towards
\* b, as axial coordinates.
CellsBetween(a, b) ==
    [ i \in 1..(hex_distance(a, b) - 1) |->
        AxialCoords(a.x + i * signum(b.x - a.x), a.y + i * signum(b.y - a.y)) ]

\* C23: for distinct a and b on a common line, line_iter(a, b) yields, in
\* order, exactly the cells strictly between a and b - nothing when they are
\* adjacent - and then ends.
C23_LineIterYieldsCellsBetween ==
    (call.op = "line_iter" /\ call.start # call.destination) =>
        /\ Len(call.result) = hex_distance(call.start, call.destination) - 1
        /\ \A i \in 1..Len(call.result) :
             i <= Len(CellsBetween(call.start, call.destination)) =>
                axial_from_cube(call.result[i])
                    = CellsBetween(call.start, call.destination)[i]

\* The offsets of the six cells at hex distance 1.
NeighborOffsets ==
    { AxialCoords(0, 1), AxialCoords(1, 0), AxialCoords(1, 0 - 1),
      AxialCoords(0, 0 - 1), AxialCoords(0 - 1, 0), AxialCoords(0 - 1, 1) }

\* The offsets with (1, 1) and (-1, -1) in the place of (1, -1) and (-1, 1).
DiagonalOffsets ==
    { AxialCoords(0 - 1, 0), AxialCoords(0, 1), AxialCoords(1, 1),
      AxialCoords(1, 0), AxialCoords(0, 0 - 1), AxialCoords(0 - 1, 0 - 1) }

\* coord_neighbors returned c plus each of the offsets, and is_adjacent_to
\* returned whether rhs - lhs is one of the offsets.
NeighborsAre(offsets) ==
    /\ (call.op = "coord_neighbors") =>
          { call.result[i] : i \in 1..Len(call.result) }
            = { AxialCoords(call.coords.x + o.x, call.coords.y + o.y) : o \in offsets }
    /\ (call.op = "is_adjacent_to") =>
          (call.result <=>
             AxialCoords(call.rhs.x - call.lhs.x, call.rhs.y - call.lhs.y) \in offsets)

\* C24 (amended): coord_neighbors(c) returns c plus each of the six axial
\* offsets (0,1), (1,0), (1,-1), (0,-1), (-1,0), (-1,1), and
\* is_adjacent_to(a, b) is true exactly when b - a is one of these.
C24_NeighborsAtDistanceOne == NeighborsAre(NeighborOffsets)

\* C24 as stated: the six offsets are (-1,0), (0,1), (1,1), (1,0), (0,-1),
\* (-1,-1).
C24_NeighborsWithDiagonalOffsets == NeighborsAre(DiagonalOffsets)

\* is_adjacent_to was asked about a cell and the cell at offset (1, -1) and
\* answered true; coord_neighbors was the other operation checked.
C24_Witness ==
    /\ call.op = "is_adjacent_to"
    /\ call.rhs = AxialCoords(call.lhs.x + 1, call.lhs.y - 1)
    /\ call.result

\* C25: the conversion of axial (x, y) to doubled coordinates gives
\* (2x - y, -y), and the conversion of doubled (dx, dy) to axial coordinates
\* gives ((dx - dy) / 2, -dy); e.g. axial (1, 0) <-> doubled (2, 0).
C25_DoubledIsTwiceXMinusY ==
    /\ (call.op = "convert") =>
          call.doubled = DoubledCoords(2 * call.axial.x - call.axial.y, 0 - call.axial.y)
    /\ (call.op = "doubled_to_axial") =>
          call.result = AxialCoords((call.doubled.x - call.doubled.y) \div 2,
                                    0 - call.doubled.y)

\* The axial coordinate of the k-th cell of the r-th row of a grid relative
\* to the centre cell: rows alternate by half a cell, the first row shifted
\* to the right; a cell to the right is at (+1, -1), a cell up-left at
\* (0, +1).
CellCoords(grid, r, k) ==
    LET h(r1, k1) == 2 * (k1 - 1) + (r1 % 2)
        hmax  == max_or_0(UNION { { h(r1, k1) : k1 \in 1..Len(grid[r1]) }
                                    : r1 \in 1..Len(grid) })
        dh    == h(r, k) - (hmax \div 2)
        dy    == (r - 1) - ((Len(grid) - 1) \div 2)
        right == (dh - dy) \div 2
        upleft == 0 - dy
    IN  AxialCoords(right, upleft - right)

\* The cells of the grid holding a two-letter token, as << row, column >>.
TokenCells(grid) ==
    { rk \in (1..Len(grid)) \X (1..4) :
        rk[2] <= Len(grid[rk[1]]) /\ Len(grid[rk[1]][rk[2]]) = 2 }

\* The piece a token names when read as type letter, then owner letter.
TokenPiece(token) ==
    [owner |-> player_color_try_from(token[2]).value,
     piece_type |-> piece_type_try_from(token[1]).value]

\* C26: from_ascii_hex_grid turns every two-letter token into a field with
\* one piece at the cell's axial coordinate relative to the centre, the
\* token read as type letter followed by owner letter; the board of a grid
\* with tokens has pieces, and the fields owned by a color are exactly the
\* cells with that owner's tokens.
C26_GridTokensAreTypeThenOwner ==
    (call.op = "from_ascii_hex_grid") =>
        /\ \A rk \in TokenCells(call.grid) :
             /\ CellCoords(call.grid, rk[1], rk[2]) \in DOMAIN call.result
             /\ call.result[CellCoords(call.grid, rk[1], rk[2])]
                  = Field(<< TokenPiece(call.grid[rk[1]][rk[2]]) >>, FALSE)
        /\ TokenCells(call.grid) # {} =>
             \E c \in DOMAIN call.result : call.result[c].piece_stack # << >>
        /\ \A color \in PlayerColor :
             { c \in DOMAIN call.result :
                 /\ call.result[c].piece_stack # << >>
                 /\ call.result[c].piece_stack[Len(call.result[c].piece_stack)].owner = color }
               = { CellCoords(call.grid, rk[1], rk[2]) :
                     rk \in { q \in TokenCells(call.grid) :
                               TokenPiece(call.grid[q[1]][q[2]]).owner = color } }

\* The board after the top piece of start is moved onto destination.
BoardAfterDrag(start, destination) ==
    [board EXCEPT
        ![start].piece_stack = SubSeq(@, 1, Len(@) - 1),
        ![destination].piece_stack = Append(@, TopPiece(start))]

\* C27: after every DragMove validate_move accepts, with the top piece of
\* start moved onto destination, the pieces on the board form one swarm.
C27_AcceptedDragKeepsSwarmConnected ==
    (IsValidateDrag /\ call.result = Ok) =>
        one_group(BoardAfterDrag(call.game_move.start, call.game_move.destination))

\* C28: validate_move accepts no SetMove whose destination holds a piece.
C28_NoSetMoveOntoPieces ==
    (IsValidateSet /\ call.result = Ok) =>
        board[call.game_move.destination].piece_stack = << >>

\* The undeployed pieces of the color in the position.
Undeployed(color) ==
    IF color = "Red" THEN undeployed_red_pieces ELSE undeployed_blue_pieces

\* C29: every SetMove validate_move(color, ..) accepts places a piece that
\* is owned by color and is among color's undeployed pieces, also at the
\* first and the second placement.
C29_AcceptedSetMovePlacesOwnUndeployedPiece ==
    (IsValidateSet /\ call.result = Ok) =>
        /\ call.game_move.piece.owner = call.color
        /\ \E i \in 1..Len(Undeployed(call.color)) :
              Undeployed(call.color)[i] = call.game_move.piece

\* The loop handles a MoveRequest in this step.
ReadsMoveRequest ==
    /\ call = NoCall
    /\ loop = "reading"
    /\ packet'.kind = "Room"
    /\ packet'.event = "MoveRequest"
    /\ (packet' # packet \/ call' # call)

\* C30: in the packet loop a move packet is written only when a MoveRequest
\* is read while a game state is stored; it carries the move the delegate
\* returned for the stored state, the state of the last Memento, and goes to
\* the room of the request.  A MoveRequest read while no state is stored
\* writes nothing and leaves the loop reading; the loop is left with Ok only
\* when a Close packet is read.
C30_MovesAnswerRequestsOnStoredState ==
    [][ /\ writer' # writer =>
            /\ ReadsMoveRequest
            /\ game_state_is_some
            /\ position' = position
            /\ call'.op = "request_move"
            /\ call'.state = GameState(turn, board, undeployed_red_pieces,
                                       undeployed_blue_pieces)
            /\ writer' = Append(writer, [kind |-> "Room", room_id |-> packet'.room_id,
                                         event |-> "Move", move |-> call'.result])
        /\ (ReadsMoveRequest /\ ~game_state_is_some) =>
            /\ writer' = writer
            /\ loop' = "reading"
        /\ (loop = "reading" /\ loop' = "closed") => packet'.kind = "Close"
        /\ (loop # "reading") => (writer' = writer /\ loop' = loop)
      ]_vars

\* A second move packet was written, for a request that arrived after a
\* later Memento than the first snapshot.
C30_Witness ==
    /\ packet = RoomPacket("room", "MoveRequest")
    /\ call.op = "request_move"
    /\ call.state.turn > 0
    /\ Len(writer) = 2
    /\ writer[2].move = call.result
    /\ game_state_is_some

====
